---------------------------- MODULE Spec2Model ----------------------------
(***************************************************************************)
(* State-machine model of unsupported/Eigen/CXX11/src/Tensor/              *)
(* TensorDeviceGpu.h: the process-wide device property cache               *)
(* (initializeDeviceProp), the GpuStreamDevice stream implementation and   *)
(* the GpuDevice facade.                                                   *)
(*                                                                         *)
(* Build modelled: a GPU compiler's host pass (EIGEN_GPUCC defined,        *)
(* EIGEN_GPU_COMPILE_PHASE not), __cplusplus >= 201103L (the std::atomic   *)
(* branch of lines 111-113, 141-143, 148-150) and assert() active, so a    *)
(* failed assert is a fatal condition that ends the process.               *)
(*                                                                         *)
(* Host threads interleave at the granularity of the source's shared       *)
(* memory accesses.  The GPU runtime (gpuMalloc, gpuStreamQuery, ...) is   *)
(* the environment: each call may succeed or fail.                         *)
(***************************************************************************)
EXTENDS Integers, Sequences, FiniteSets, TLC

\* ------------------------------------------------------------- bounds
NumThreads == 2      \* host threads
NumInst == 2         \* GpuStreamDevice objects the program may construct
NumDevices == 2      \* the device count gpuGetDeviceCount reports
NumUserStreams == 1  \* caller-supplied streams (stream 0 is default_stream)
MaxBlocks == 2       \* device memory blocks gpuMalloc can hand out
MaxQueue == 2        \* operations pending on one stream

\* ---------------------------------------------------- program constants
kGpuScratchSize == 1024
SizeofUnsignedInt == 4

Threads == 1..NumThreads
Insts == 1..NumInst
Devices == 0..(NumDevices - 1)
\* the values an int device argument takes here: -1, every visible device,
\* and one index that is not below the visible device count
DeviceArgs == (-1)..NumDevices
Streams == 0..NumUserStreams
Blocks == 1..MaxBlocks
\* an unsigned int in device memory is tracked as zero (0) or non-zero (1)
CellValues == {0, 1}
NULL == 0
NoInst == NULL
NoThread == NULL
NoOk == [status |-> "none", ret |-> FALSE, clean |-> FALSE]
NoObs == [by |-> NoThread, inst |-> NoInst, ptr |-> NULL, idx |-> 0, rec |-> "none"]

VARIABLES
  \* process
  aborted,                 \* a fatal condition (failed assert) ended the process
  \* property cache, lines 100-101 and 112
  first,                   \* static std::atomic<bool> first(true)
  m_devicePropInitialized, \* static bool
  m_deviceProperties,      \* static gpuDeviceProp_t*: NULL or an index of propArrays
  propArrays,              \* heap of property arrays: device -> "record is written"
  \* host threads
  pc,                      \* position of each thread
  op,                      \* the outermost call the thread is in
  self,                    \* the GpuStreamDevice (this) of the thread's call
  num_devices,             \* local of initializeDeviceProp, line 120
  idx,                     \* local i of the loop at line 129
  result,                  \* pointer local: allocate's result, deallocate's buffer
  fresh,                   \* the thread's loads see the initializer's stores
  \* GpuStreamDevice objects
  life,                    \* "none", "ctor", "live", "dead"
  mode,                    \* which constructor built it (1, 2, 3), 0 if none
  stream_, device_, scratch_, semaphore_,
  \* device memory
  heap,                    \* per block: 0 when free, else the bytes allocated
  semCell,                 \* per block: the unsigned int at offset kGpuScratchSize
  held,                    \* pointers allocate() returned to callers, not yet freed
  \* streams
  queue,                   \* per stream: pending operations, head first
  running,                 \* per stream: the head kernel has started
  streamErr,               \* per stream: the runtime recorded an error
  \* history variables
  winners,                 \* threads whose first.exchange(false) returned true
  passLog,                 \* steps of the query pass taken: <<thread, step>>
  returned,                \* threads that returned from initializeDeviceProp
  obs,                     \* what the last deviceProperties() call saw, and who called
  users,                   \* per instance: threads that entered scratchpad/semaphore
  scratchAllocs,           \* per instance: allocate() calls made by scratchpad()
  scratchRets,             \* per instance: pointers scratchpad() returned
  semRets,                 \* per instance: pointers semaphore() returned
  zeroFills,               \* per instance: gpuMemsetAsync calls made by semaphore()
  dtorFrees,               \* per instance: blocks its destructor released
  strayAlloc,              \* allocate() returned a pointer on an object whose device_ is no visible device
  garbage,                 \* scratch pointers whose block came with a non-zero semaphore cell
  startSeen,               \* semaphore values that kernels using it found on start
  okLog,                   \* the last ok(): status polled, value returned, stream clean
  clean                    \* per stream: synchronize() succeeded, nothing issued since

cacheVars == <<first, m_devicePropInitialized, m_deviceProperties, propArrays>>
threadVars == <<pc, op, self, num_devices, idx, result, fresh>>
instVars == <<life, mode, stream_, device_, scratch_, semaphore_>>
heapVars == <<heap, semCell, held>>
streamVars == <<queue, running, streamErr>>
cacheHist == <<winners, passLog, returned, obs>>
instHist == <<users, scratchAllocs, scratchRets, semRets, zeroFills, dtorFrees,
              strayAlloc, garbage, startSeen, okLog, clean>>
vars == <<aborted, cacheVars, threadVars, instVars, heapVars, streamVars,
          cacheHist, instHist>>

\* The values the program starts with.
Start ==
  /\ first = TRUE
  /\ m_devicePropInitialized = FALSE
  /\ m_deviceProperties = NULL
  /\ propArrays = <<>>
  /\ pc = [t \in Threads |-> "idle"]
  /\ op = [t \in Threads |-> "none"]
  /\ self = [t \in Threads |-> NoInst]
  /\ num_devices = [t \in Threads |-> 0]
  /\ idx = [t \in Threads |-> 0]
  /\ result = [t \in Threads |-> NULL]
  /\ fresh = [t \in Threads |-> FALSE]
  /\ life = [i \in Insts |-> "none"]
  /\ mode = [i \in Insts |-> 0]
  /\ stream_ = [i \in Insts |-> 0]
  /\ device_ = [i \in Insts |-> 0]
  /\ scratch_ = [i \in Insts |-> NULL]
  /\ semaphore_ = [i \in Insts |-> NULL]
  /\ heap = [b \in Blocks |-> 0]
  /\ semCell = [b \in Blocks |-> 0]
  /\ held = {}
  /\ queue = [s \in Streams |-> <<>>]
  /\ running = [s \in Streams |-> FALSE]
  /\ streamErr = [s \in Streams |-> FALSE]
  /\ winners = {}
  /\ passLog = {}
  /\ returned = {}
  /\ obs = NoObs
  /\ users = [i \in Insts |-> {}]
  /\ scratchAllocs = [i \in Insts |-> 0]
  /\ scratchRets = [i \in Insts |-> {}]
  /\ semRets = [i \in Insts |-> {}]
  /\ zeroFills = [i \in Insts |-> 0]
  /\ dtorFrees = [i \in Insts |-> 0]
  /\ strayAlloc = FALSE
  /\ garbage = {}
  /\ startSeen = {}
  /\ okLog = NoOk
  /\ clean = [s \in Streams |-> FALSE]

\* A failed assert (lines 126, 137, 182, 183, 202, ...): the process ends and
\* its objects, memory and streams are gone with it.
Fatal ==
  /\ aborted' = TRUE
  /\ first' = TRUE
  /\ m_devicePropInitialized' = FALSE
  /\ m_deviceProperties' = NULL
  /\ propArrays' = <<>>
  /\ pc' = [t \in Threads |-> "idle"]
  /\ op' = [t \in Threads |-> "none"]
  /\ self' = [t \in Threads |-> NoInst]
  /\ num_devices' = [t \in Threads |-> 0]
  /\ idx' = [t \in Threads |-> 0]
  /\ result' = [t \in Threads |-> NULL]
  /\ fresh' = [t \in Threads |-> FALSE]
  /\ life' = [i \in Insts |-> "none"]
  /\ mode' = [i \in Insts |-> 0]
  /\ stream_' = [i \in Insts |-> 0]
  /\ device_' = [i \in Insts |-> 0]
  /\ scratch_' = [i \in Insts |-> NULL]
  /\ semaphore_' = [i \in Insts |-> NULL]
  /\ heap' = [b \in Blocks |-> 0]
  /\ semCell' = [b \in Blocks |-> 0]
  /\ held' = {}
  /\ queue' = [s \in Streams |-> <<>>]
  /\ running' = [s \in Streams |-> FALSE]
  /\ streamErr' = [s \in Streams |-> FALSE]
  /\ winners' = {}
  /\ passLog' = {}
  /\ returned' = {}
  /\ obs' = NoObs
  /\ users' = [i \in Insts |-> {}]
  /\ scratchAllocs' = [i \in Insts |-> 0]
  /\ scratchRets' = [i \in Insts |-> {}]
  /\ semRets' = [i \in Insts |-> {}]
  /\ zeroFills' = [i \in Insts |-> 0]
  /\ dtorFrees' = [i \in Insts |-> 0]
  /\ strayAlloc' = FALSE
  /\ garbage' = {}
  /\ startSeen' = {}
  /\ okLog' = NoOk
  /\ clean' = [s \in Streams |-> FALSE]

\* ------------------------------------------------- initializeDeviceProp
\* The function has two kinds of caller: a GpuStreamDevice constructor
\* (lines 164, 168, 186), whose object then exists, and a direct call.
ReturnFromInit(t) ==
  /\ pc' = [pc EXCEPT ![t] = "idle"]
  /\ op' = [op EXCEPT ![t] = "none"]
  /\ self' = [self EXCEPT ![t] = NoInst]
  /\ num_devices' = [num_devices EXCEPT ![t] = 0]
  /\ idx' = [idx EXCEPT ![t] = 0]
  /\ life' = IF self[t] # NoInst THEN [life EXCEPT ![self[t]] = "live"] ELSE life
  /\ returned' = returned \cup {t}

\* line 104: if (!m_devicePropInitialized); a plain load, no fence follows it
CheckInitialized(t) ==
  /\ ~aborted /\ pc[t] = "init104"
  /\ \/ /\ m_devicePropInitialized
        /\ ReturnFromInit(t)
        /\ UNCHANGED <<result, fresh>>
        /\ UNCHANGED <<mode, stream_, device_, scratch_, semaphore_>>
     \/ /\ ~m_devicePropInitialized
        /\ pc' = [pc EXCEPT ![t] = "init113"]
        /\ UNCHANGED <<op, self, num_devices, idx, result, fresh>>
        /\ UNCHANGED <<instVars, returned>>
  /\ UNCHANGED <<aborted, cacheVars, heapVars, streamVars, winners, passLog, obs,
                 instHist>>

\* what first.exchange(false) leaves in the flag
\* variant: the exchange leaves the flag as it found it
Exchanged_Keep(old) == old

Exchanged(old) == FALSE

\* line 113: if (first.exchange(false)), one atomic read-modify-write
ClaimFirst(t) ==
  /\ ~aborted /\ pc[t] = "init113"
  /\ first' = Exchanged(first)
  /\ IF first
       THEN /\ winners' = winners \cup {t}
            /\ pc' = [pc EXCEPT ![t] = "init121"]
       ELSE /\ winners' = winners
            /\ pc' = [pc EXCEPT ![t] = "init147"]
  /\ UNCHANGED <<aborted, m_devicePropInitialized, m_deviceProperties, propArrays,
                 op, self, num_devices, idx, result, fresh,
                 instVars, heapVars, streamVars, passLog, returned, obs, instHist>>

\* lines 120-127: gpuGetDeviceCount(&num_devices), fatal on failure
QueryDeviceCount(t) ==
  /\ ~aborted /\ pc[t] = "init121"
  /\ \/ /\ num_devices' = [num_devices EXCEPT ![t] = NumDevices]
        /\ passLog' = passLog \cup {<<t, "count">>}
        /\ pc' = [pc EXCEPT ![t] = "init128"]
        /\ UNCHANGED <<aborted, cacheVars, op, self, idx, result, fresh,
                       instVars, heapVars, streamVars, winners, returned, obs,
                       instHist>>
     \/ Fatal

\* line 128: m_deviceProperties = new gpuDeviceProp_t[num_devices]
AllocateProperties(t) ==
  /\ ~aborted /\ pc[t] = "init128"
  /\ propArrays' = Append(propArrays, [d \in 0..(num_devices[t] - 1) |-> FALSE])
  /\ m_deviceProperties' = Len(propArrays) + 1
  /\ idx' = [idx EXCEPT ![t] = 0]
  /\ fresh' = [fresh EXCEPT ![t] = TRUE]
  /\ passLog' = passLog \cup {<<t, "new">>}
  /\ pc' = [pc EXCEPT ![t] = "init129"]
  /\ UNCHANGED <<aborted, first, m_devicePropInitialized, op, self, num_devices,
                 result, instVars, heapVars, streamVars, winners, returned,
                 obs, instHist>>

\* lines 129-139: for (i = 0; i < num_devices; ++i)
\*   gpuGetDeviceProperties(&m_deviceProperties[i], i), fatal on failure
QueryDeviceProperties(t) ==
  /\ ~aborted /\ pc[t] = "init129"
  /\ \/ /\ idx[t] < num_devices[t]
        /\ propArrays' = [propArrays EXCEPT ![m_deviceProperties][idx[t]] = TRUE]
        /\ idx' = [idx EXCEPT ![t] = idx[t] + 1]
        /\ passLog' = passLog \cup {<<t, "props">>}
        /\ UNCHANGED <<aborted, first, m_devicePropInitialized, m_deviceProperties,
                       pc, op, self, num_devices, result, fresh, instVars,
                       heapVars, streamVars, winners, returned, obs, instHist>>
     \/ /\ idx[t] < num_devices[t]
        /\ Fatal
     \/ /\ idx[t] >= num_devices[t]
        /\ pc' = [pc EXCEPT ![t] = "init144"]
        /\ UNCHANGED <<aborted, cacheVars, op, self, num_devices, idx, result,
                       fresh, instVars, heapVars, streamVars, cacheHist,
                       instHist>>

\* the value line 144 stores
\* variant: the flag is never raised
PublishedValue_Unset == FALSE

PublishedValue == TRUE

\* lines 141-144: release fence, then m_devicePropInitialized = true
PublishInitialized(t) ==
  /\ ~aborted /\ pc[t] = "init144"
  /\ m_devicePropInitialized' = PublishedValue
  /\ ReturnFromInit(t)
  /\ UNCHANGED <<aborted, first, m_deviceProperties, propArrays,
                 result, fresh, mode, stream_, device_, scratch_, semaphore_,
                 heapVars, streamVars, winners, passLog, obs, instHist>>

\* line 147: while (!m_devicePropInitialized); the load that ends the loop
\* has no fence after it
PollInitialized(t) ==
  /\ ~aborted /\ pc[t] = "init147"
  /\ \/ /\ m_devicePropInitialized
        /\ ReturnFromInit(t)
        /\ UNCHANGED <<result, fresh>>
        /\ UNCHANGED <<mode, stream_, device_, scratch_, semaphore_>>
     \/ /\ ~m_devicePropInitialized
        /\ pc' = [pc EXCEPT ![t] = "init149"]
        /\ UNCHANGED <<op, self, num_devices, idx, result, fresh>>
        /\ UNCHANGED <<instVars, returned>>
  /\ UNCHANGED <<aborted, cacheVars, heapVars, streamVars, winners, passLog, obs,
                 instHist>>

\* lines 148-151: acquire fence and EIGEN_SLEEP(1000) in the loop body.  The
\* fence follows a load that returned false, so it orders nothing after the
\* initializer's stores.
SleepWaiting(t) ==
  /\ ~aborted /\ pc[t] = "init149"
  /\ pc' = [pc EXCEPT ![t] = "init147"]
  /\ UNCHANGED <<aborted, cacheVars, op, self, num_devices, idx, result, fresh, instVars, heapVars, streamVars, cacheHist, instHist>>

\* The initializer's stores reach a thread that ordered nothing against them
\* at some later moment of the hardware's choosing.
Visible(t) ==
  /\ ~aborted /\ m_devicePropInitialized /\ ~fresh[t]
  /\ fresh' = [fresh EXCEPT ![t] = TRUE]
  /\ UNCHANGED <<aborted, cacheVars, pc, op, self, num_devices, idx, result,
                 instVars, heapVars, streamVars, cacheHist, instHist>>

\* a direct call of initializeDeviceProp()
CallInit(t) ==
  /\ ~aborted /\ pc[t] = "idle"
  /\ pc' = [pc EXCEPT ![t] = "init104"]
  /\ op' = [op EXCEPT ![t] = "init"]
  /\ UNCHANGED <<aborted, cacheVars, self, num_devices, idx, result, fresh,
                 instVars, heapVars, streamVars, cacheHist, instHist>>

\* ------------------------------------------- GpuStreamDevice construction
\* the object a constructor call builds: the next one never built
NewInst == CHOOSE i \in Insts : life[i] = "none" /\ \A j \in Insts : j < i => life[j] # "none"

Construct(t, i, m, s, d) ==
  /\ life' = [life EXCEPT ![i] = "ctor"]
  /\ mode' = [mode EXCEPT ![i] = m]
  /\ stream_' = [stream_ EXCEPT ![i] = s]
  /\ device_' = [device_ EXCEPT ![i] = d]
  /\ scratch_' = [scratch_ EXCEPT ![i] = NULL]
  /\ semaphore_' = [semaphore_ EXCEPT ![i] = NULL]
  /\ self' = [self EXCEPT ![t] = i]
  /\ op' = [op EXCEPT ![t] = "ctor"]
  /\ pc' = [pc EXCEPT ![t] = "init104"]
  /\ UNCHANGED <<aborted, cacheVars, num_devices, idx, result, fresh,
                 heapVars, streamVars, cacheHist, instHist>>

\* lines 162-165: GpuStreamDevice().  gpuGetDevice(&device_) is not checked:
\* on success it leaves a visible device in device_, on failure device_ keeps
\* what the uninitialised member held; got is what device_ holds afterwards.
ConstructDefault(t, got) ==
  /\ ~aborted /\ pc[t] = "idle" /\ \E i \in Insts : life[i] = "none"
  /\ Construct(t, NewInst, 1, 0, got)

\* lines 167-169: GpuStreamDevice(int device); device is stored as given
ConstructOnDevice(t, device) ==
  /\ ~aborted /\ pc[t] = "idle" /\ \E i \in Insts : life[i] = "none"
  /\ Construct(t, NewInst, 2, 0, device)

\* lines 174-187: GpuStreamDevice(const gpuStream_t* stream, int device = -1).
\* current is the thread's current device and good the runtime's answer: for
\* device < 0 to gpuGetDevice (unchecked, device_ keeps -1 when it fails),
\* else to gpuGetDeviceCount (asserted).
ConstructOnStream(t, s, device, current, good) ==
  /\ ~aborted /\ pc[t] = "idle" /\ \E i \in Insts : life[i] = "none"
  /\ IF device < 0
       THEN Construct(t, NewInst, 3, s, IF good THEN current ELSE device)
       ELSE IF good /\ device < NumDevices
              THEN Construct(t, NewInst, 3, s, device)
              ELSE Fatal

\* lines 196-198: return m_deviceProperties[device_], and the caller's read of
\* the record (lines 341-358).  A thread whose return from
\* initializeDeviceProp ordered nothing against the initializer's stores may
\* load the pointer or the record as they were before those stores.
PointerSeen(t) == IF fresh[t] THEN {m_deviceProperties} ELSE {m_deviceProperties, NULL}

RecordSeen(t, p, d) ==
  IF p = NULL THEN {"null"}
  ELSE IF d \notin DOMAIN propArrays[p] THEN {"out of bounds"}
  ELSE IF propArrays[p][d] /\ fresh[t] THEN {"written"}
  ELSE IF propArrays[p][d] THEN {"written", "unwritten"}
  ELSE {"unwritten"}

deviceProperties(t, i) ==
  /\ ~aborted /\ pc[t] = "idle" /\ life[i] = "live" /\ t \in returned
  /\ \E p \in PointerSeen(t) : \E r \in RecordSeen(t, p, device_[i]) :
       obs' = [by |-> t, inst |-> i, ptr |-> p, idx |-> device_[i], rec |-> r]
  /\ UNCHANGED <<aborted, cacheVars, threadVars, instVars, heapVars, streamVars,
                 winners, passLog, returned, instHist>>

\* ---------------------------------------------------------- device memory
\* A device pointer is an address; block b starts at Addr(b), and blocks lie
\* far enough apart for the scratch size.
Addr(b) == b * 2 * kGpuScratchSize
BlockOf(p) == p \div (2 * kGpuScratchSize)
FreeBlocks == {b \in Blocks : heap[b] = 0}

\* lines 200-205: gpuSetDevice(device_) succeeds only for a visible device
SetDeviceOk(i, good) == good /\ device_[i] \in Devices

\* the bytes line 220 asks for
\* variant: no room for the semaphore
ScratchBytes_NoSlot == kGpuScratchSize

ScratchBytes == kGpuScratchSize + SizeofUnsignedInt

\* lines 199-208, allocate(num_bytes) on instance i: block b is what gpuMalloc
\* hands out, cell the uninitialised content it comes with; the caller keeps
\* the pointer Addr(b).  All asserts of the body passed.
allocate(i, num_bytes, b, cell) ==
  /\ heap' = [heap EXCEPT ![b] = num_bytes]
  /\ semCell' = [semCell EXCEPT ![b] = cell]
  /\ strayAlloc' = (strayAlloc \/ device_[i] \notin Devices)

\* lines 209-216, deallocate(buffer): gpuFree waits for the device to finish
\* its pending work, then releases the block
CanFree == \A s \in Streams : queue[s] = <<>>

deallocate(buffer) ==
  /\ heap' = [heap EXCEPT ![BlockOf(buffer)] = 0]
  /\ semCell' = [semCell EXCEPT ![BlockOf(buffer)] = 0]

\* a caller's allocate(num_bytes) through the facade (lines 257-259); what
\* the caller's block holds is not followed
UserAllocate(t, i, num_bytes, good) ==
  /\ ~aborted /\ pc[t] = "idle" /\ life[i] = "live"
  /\ IF SetDeviceOk(i, good) /\ FreeBlocks # {}
       THEN /\ \E b \in FreeBlocks :
                 /\ allocate(i, num_bytes, b, 0)
                 /\ held' = held \cup {Addr(b)}
            /\ UNCHANGED <<aborted, cacheVars, threadVars, instVars, streamVars,
                           cacheHist, users, scratchAllocs, scratchRets, semRets,
                           zeroFills, dtorFrees, garbage, startSeen, okLog, clean>>
       ELSE Fatal

\* a caller's deallocate(buffer) through the facade (lines 261-263), of a
\* pointer allocate() handed out
UserDeallocate(t, i, buffer, good) ==
  /\ ~aborted /\ pc[t] = "idle" /\ life[i] = "live" /\ buffer \in held
  /\ CanFree
  /\ IF SetDeviceOk(i, good)
       THEN /\ deallocate(buffer)
            /\ held' = held \ {buffer}
            /\ UNCHANGED <<aborted, cacheVars, threadVars, instVars, streamVars,
                           cacheHist, instHist>>
       ELSE Fatal

\* --------------------------------------------------- scratchpad, semaphore
Enter(t, i, o, at) ==
  /\ pc' = [pc EXCEPT ![t] = at]
  /\ op' = [op EXCEPT ![t] = o]
  /\ self' = [self EXCEPT ![t] = i]

Leave(t) ==
  /\ pc' = [pc EXCEPT ![t] = "idle"]
  /\ op' = [op EXCEPT ![t] = "none"]
  /\ self' = [self EXCEPT ![t] = NoInst]
  /\ result' = [result EXCEPT ![t] = NULL]

\* where line 219's test sends the thread, given what it read in scratch_
\* variant: the test is skipped and every call allocates
AfterScratchTest_Always(p) == "scratch220"

AfterScratchTest(p) == IF p = NULL THEN "scratch220" ELSE "scratch222"

\* where line 226's test sends the thread, given what it read in semaphore_
AfterSemTest(p) == IF p = NULL THEN "scratch219" ELSE "sem233"

\* a caller's scratchpad() (lines 265-267) up to line 219: if (scratch_ == NULL)
CallScratchpad(t, i) ==
  /\ ~aborted /\ pc[t] = "idle" /\ life[i] = "live"
  /\ Enter(t, i, "scratchpad", AfterScratchTest(scratch_[i]))
  /\ users' = [users EXCEPT ![i] = @ \cup {t}]
  /\ UNCHANGED <<aborted, cacheVars, num_devices, idx, result, fresh, instVars,
                 heapVars, streamVars, cacheHist, scratchAllocs, scratchRets,
                 semRets, zeroFills, dtorFrees, strayAlloc, garbage, startSeen, okLog,
                 clean>>

\* line 219: if (scratch_ == NULL), in the scratchpad() that line 227 calls
ScratchTest(t) ==
  /\ ~aborted /\ pc[t] = "scratch219"
  /\ pc' = [pc EXCEPT ![t] = AfterScratchTest(scratch_[self[t]])]
  /\ UNCHANGED <<aborted, cacheVars, op, self, num_devices, idx, result, fresh,
                 instVars, heapVars, streamVars, cacheHist, instHist>>

\* line 220: scratch_ = allocate(kGpuScratchSize + sizeof(unsigned int))
ScratchAllocate(t, good) ==
  /\ ~aborted /\ pc[t] = "scratch220"
  /\ IF SetDeviceOk(self[t], good) /\ FreeBlocks # {}
       THEN /\ \E b \in FreeBlocks : \E cell \in CellValues :
                 /\ allocate(self[t], ScratchBytes, b, cell)
                 /\ scratch_' = [scratch_ EXCEPT ![self[t]] = Addr(b)]
                 /\ garbage' = IF cell # 0 THEN garbage \cup {Addr(b)}
                                          ELSE garbage \ {Addr(b)}
            /\ scratchAllocs' = [scratchAllocs EXCEPT ![self[t]] = @ + 1]
            /\ pc' = [pc EXCEPT ![t] = "scratch222"]
            /\ UNCHANGED <<aborted, cacheVars, op, self, num_devices, idx, result,
                           fresh, life, mode, stream_, device_, semaphore_, held,
                           streamVars, cacheHist, users, scratchRets, semRets,
                           zeroFills, dtorFrees, startSeen, okLog, clean>>
       ELSE Fatal

\* line 222: return scratch_, to the caller or to semaphore() at line 227
ScratchReturn(t) ==
  /\ ~aborted /\ pc[t] = "scratch222"
  /\ scratchRets' = [scratchRets EXCEPT ![self[t]] = @ \cup {scratch_[self[t]]}]
  /\ IF op[t] = "semaphore"
       THEN /\ pc' = [pc EXCEPT ![t] = "sem227"]
            /\ result' = [result EXCEPT ![t] = scratch_[self[t]]]
            /\ UNCHANGED <<op, self>>
       ELSE Leave(t)
  /\ UNCHANGED <<aborted, cacheVars, num_devices, idx, fresh, instVars, heapVars,
                 streamVars, cacheHist, users, scratchAllocs, semRets, zeroFills,
                 dtorFrees, strayAlloc, garbage, startSeen, okLog, clean>>

\* a caller's semaphore() (lines 269-271) up to line 226: if (semaphore_ == NULL)
CallSemaphore(t, i) ==
  /\ ~aborted /\ pc[t] = "idle" /\ life[i] = "live"
  /\ Enter(t, i, "semaphore", AfterSemTest(semaphore_[i]))
  /\ users' = [users EXCEPT ![i] = @ \cup {t}]
  /\ UNCHANGED <<aborted, cacheVars, num_devices, idx, result, fresh, instVars,
                 heapVars, streamVars, cacheHist, scratchAllocs, scratchRets,
                 semRets, zeroFills, dtorFrees, strayAlloc, garbage, startSeen, okLog,
                 clean>>

\* lines 227-228: semaphore_ = (unsigned int*)((char*)scratchpad() + kGpuScratchSize)
SemaphoreAt(scratch) == scratch + kGpuScratchSize

SemAssign(t) ==
  /\ ~aborted /\ pc[t] = "sem227"
  /\ semaphore_' = [semaphore_ EXCEPT ![self[t]] = SemaphoreAt(result[t])]
  /\ pc' = [pc EXCEPT ![t] = "sem229"]
  /\ result' = [result EXCEPT ![t] = NULL]
  /\ UNCHANGED <<aborted, cacheVars, op, self, num_devices, idx, fresh, life, mode,
                 stream_, device_, scratch_, heapVars, streamVars, cacheHist,
                 instHist>>

\* what line 229 puts on the stream: a fill of the semaphore's bytes with 0
\* variant: nothing is put on the stream
ZeroFill_None(p) == <<>>

ZeroFill(p) == <<[k |-> "memset", p |-> p]>>

\* lines 229-231: gpuMemsetAsync(semaphore_, 0, sizeof(unsigned int), *stream_),
\* asserted; the runtime refuses work on a stream that recorded an error
SemZeroFill(t, good) ==
  /\ ~aborted /\ pc[t] = "sem229"
  /\ Len(queue[stream_[self[t]]]) < MaxQueue
  /\ IF good /\ ~streamErr[stream_[self[t]]]
       THEN /\ queue' = [queue EXCEPT ![stream_[self[t]]] =
                           @ \o ZeroFill(semaphore_[self[t]])]
            /\ clean' = [clean EXCEPT ![stream_[self[t]]] = FALSE]
            /\ zeroFills' = [zeroFills EXCEPT ![self[t]] = @ + 1]
            /\ pc' = [pc EXCEPT ![t] = "sem233"]
            /\ UNCHANGED <<aborted, cacheVars, op, self, num_devices, idx, result,
                           fresh, instVars, heapVars, running, streamErr, cacheHist,
                           users, scratchAllocs, scratchRets, semRets, dtorFrees,
                           strayAlloc, garbage, startSeen, okLog>>
       ELSE Fatal

\* line 233: return semaphore_
SemReturn(t) ==
  /\ ~aborted /\ pc[t] = "sem233"
  /\ semRets' = [semRets EXCEPT ![self[t]] = @ \cup {semaphore_[self[t]]}]
  /\ Leave(t)
  /\ UNCHANGED <<aborted, cacheVars, num_devices, idx, fresh, instVars, heapVars,
                 streamVars, cacheHist, users, scratchAllocs, scratchRets,
                 zeroFills, dtorFrees, strayAlloc, garbage, startSeen, okLog, clean>>

\* ------------------------------------------------------------- destruction
\* the object's owner destroys it once no call on it is in progress
Destroy(t, i) ==
  /\ ~aborted /\ pc[t] = "idle" /\ life[i] = "live"
  /\ \A u \in Threads : self[u] # i
  /\ Enter(t, i, "dtor", "dtor190")
  /\ life' = [life EXCEPT ![i] = "dying"]
  /\ UNCHANGED <<aborted, cacheVars, num_devices, idx, result, fresh, mode,
                 stream_, device_, scratch_, semaphore_, heapVars, streamVars,
                 cacheHist, instHist>>

\* whether line 190's test sends the destructor to deallocate(scratch_)
\* variant: the destructor releases nothing
OwnsScratch_Never(p) == FALSE

OwnsScratch(p) == p # NULL

\* lines 189-193: if (scratch_) deallocate(scratch_)
DestructorBody(t, good) ==
  /\ ~aborted /\ pc[t] = "dtor190"
  /\ IF ~OwnsScratch(scratch_[self[t]])
       THEN /\ life' = [life EXCEPT ![self[t]] = "dead"]
            /\ Leave(t)
            /\ UNCHANGED <<aborted, cacheVars, num_devices, idx, fresh, mode,
                           stream_, device_, scratch_, semaphore_, heapVars,
                           streamVars, cacheHist, instHist>>
       ELSE /\ CanFree
            /\ IF SetDeviceOk(self[t], good)
                 THEN /\ deallocate(scratch_[self[t]])
                      /\ dtorFrees' = [dtorFrees EXCEPT ![self[t]] = @ + 1]
                      /\ life' = [life EXCEPT ![self[t]] = "dead"]
                      /\ Leave(t)
                      /\ UNCHANGED <<aborted, cacheVars, num_devices, idx, fresh,
                                     mode, stream_, device_, scratch_, semaphore_,
                                     held, streamVars, cacheHist, users,
                                     scratchAllocs, scratchRets, semRets, zeroFills,
                                     strayAlloc, garbage, startSeen, okLog, clean>>
                 ELSE Fatal

\* ------------------------------------------------------ streams, kernels
\* lines 382-392, LAUNCH_GPU_KERNEL on the facade of instance i: the kernel is
\* put on (device).stream() and the launch is asserted.  sem is the semaphore
\* the kernel is handed: a pointer semaphore() returned, or NULL if it uses
\* none.
Launch(t, i, sem, good) ==
  /\ ~aborted /\ pc[t] = "idle" /\ life[i] = "live"
  /\ sem \in semRets[i] \cup {NULL}
  /\ Len(queue[stream_[i]]) < MaxQueue
  /\ IF good /\ ~streamErr[stream_[i]]
       THEN /\ queue' = [queue EXCEPT ![stream_[i]] = @ \o <<[k |-> "kernel", p |-> sem]>>]
            /\ clean' = [clean EXCEPT ![stream_[i]] = FALSE]
            /\ UNCHANGED <<aborted, cacheVars, threadVars, instVars, heapVars,
                           running, streamErr, cacheHist, users, scratchAllocs,
                           scratchRets, semRets, zeroFills, dtorFrees, strayAlloc,
                           garbage, startSeen, okLog>>
       ELSE Fatal

\* The device takes the operation at the head of a stream (a stream runs its
\* operations in issue order): a fill writes its bytes and is done.
DeviceFill(s) ==
  /\ ~aborted /\ ~streamErr[s] /\ queue[s] # <<>>
  /\ Head(queue[s]).k = "memset"
  /\ semCell' = [semCell EXCEPT ![BlockOf(Head(queue[s]).p)] = 0]
  /\ queue' = [queue EXCEPT ![s] = Tail(@)]
  /\ UNCHANGED <<aborted, cacheVars, threadVars, instVars, heap, held, running,
                 streamErr, cacheHist, instHist>>

\* A kernel starts: one that uses the semaphore reads it and counts on it.
DeviceStart(s) ==
  /\ ~aborted /\ ~streamErr[s] /\ queue[s] # <<>> /\ ~running[s]
  /\ Head(queue[s]).k = "kernel"
  /\ running' = [running EXCEPT ![s] = TRUE]
  /\ IF Head(queue[s]).p # NULL
       THEN /\ startSeen' = startSeen \cup {semCell[BlockOf(Head(queue[s]).p)]}
            /\ semCell' = [semCell EXCEPT ![BlockOf(Head(queue[s]).p)] = 1]
       ELSE UNCHANGED <<startSeen, semCell>>
  /\ UNCHANGED <<aborted, cacheVars, threadVars, instVars, heap, held, queue,
                 streamErr, cacheHist, users, scratchAllocs, scratchRets, semRets,
                 zeroFills, dtorFrees, strayAlloc, garbage, okLog, clean>>

\* A kernel completes: lines 93-96, each kernel using the semaphore resets it
\* to 0 upon completion.
DeviceFinish(s) ==
  /\ ~aborted /\ ~streamErr[s] /\ queue[s] # <<>> /\ running[s]
  /\ running' = [running EXCEPT ![s] = FALSE]
  /\ semCell' = IF Head(queue[s]).p # NULL
                  THEN [semCell EXCEPT ![BlockOf(Head(queue[s]).p)] = 0]
                  ELSE semCell
  /\ queue' = [queue EXCEPT ![s] = Tail(@)]
  /\ UNCHANGED <<aborted, cacheVars, threadVars, instVars, heap, held, streamErr,
                 cacheHist, instHist>>

\* An operation fails on the device: the runtime records the error on the
\* stream and runs nothing more of it.
DeviceFault(s) ==
  /\ ~aborted /\ ~streamErr[s] /\ queue[s] # <<>>
  /\ streamErr' = [streamErr EXCEPT ![s] = TRUE]
  /\ queue' = [queue EXCEPT ![s] = <<>>]
  /\ running' = [running EXCEPT ![s] = FALSE]
  /\ clean' = [clean EXCEPT ![s] = FALSE]
  /\ UNCHANGED <<aborted, cacheVars, threadVars, instVars, heapVars, cacheHist,
                 users, scratchAllocs, scratchRets, semRets, zeroFills, dtorFrees,
                 strayAlloc, garbage, startSeen, okLog>>

\* lines 327-339, synchronize(): gpuStreamSynchronize returns once the stream
\* has drained, with the error the stream recorded if any; an error is fatal
synchronize(t, i, good) ==
  /\ ~aborted /\ pc[t] = "idle" /\ life[i] = "live"
  /\ queue[stream_[i]] = <<>>
  /\ IF good /\ ~streamErr[stream_[i]]
       THEN /\ clean' = [clean EXCEPT ![stream_[i]] = TRUE]
            /\ UNCHANGED <<aborted, cacheVars, threadVars, instVars, heapVars,
                           streamVars, cacheHist, users, scratchAllocs,
                           scratchRets, semRets, zeroFills, dtorFrees, strayAlloc,
                           garbage, startSeen, okLog>>
       ELSE Fatal

\* line 368: what the non-blocking gpuStreamQuery reports for a stream
gpuStreamQuery(s) ==
  IF streamErr[s] THEN "gpuErrorLaunchFailure"
  ELSE IF queue[s] # <<>> THEN "gpuErrorNotReady"
  ELSE "gpuSuccess"

\* line 369: return (error == gpuSuccess) || (error == gpuErrorNotReady)
\* variant: only a drained stream counts as healthy
OkValue_Strict(error) == error = "gpuSuccess"

OkValue(error) == error = "gpuSuccess" \/ error = "gpuErrorNotReady"

\* lines 366-373, ok()
ok(t, i) ==
  /\ ~aborted /\ pc[t] = "idle" /\ life[i] = "live"
  /\ okLog' = [status |-> gpuStreamQuery(stream_[i]),
               ret |-> OkValue(gpuStreamQuery(stream_[i])),
               clean |-> clean[stream_[i]]]
  /\ UNCHANGED <<aborted, cacheVars, threadVars, instVars, heapVars, streamVars,
                 cacheHist, users, scratchAllocs, scratchRets, semRets, zeroFills,
                 dtorFrees, strayAlloc, garbage, startSeen, clean>>

\* ------------------------------------------------------------ initial state
Init ==
  /\ aborted = FALSE
  /\ Start

InitStep(t) ==
  \/ CheckInitialized(t)
  \/ ClaimFirst(t)
  \/ QueryDeviceCount(t)
  \/ AllocateProperties(t)
  \/ QueryDeviceProperties(t)
  \/ PublishInitialized(t)
  \/ PollInitialized(t)
  \/ SleepWaiting(t)

\* The property cache and the objects built on it: every way into
\* initializeDeviceProp, with every device argument, and the readers.
NextCache ==
  \/ \E t \in Threads : InitStep(t)
  \/ \E t \in Threads : CallInit(t)
  \/ \E t \in Threads : \E d \in DeviceArgs : ConstructDefault(t, d)
  \/ \E t \in Threads : \E d \in DeviceArgs : ConstructOnDevice(t, d)
  \/ \E t \in Threads : \E s \in Streams : \E d \in DeviceArgs :
       \E c \in Devices : \E good \in BOOLEAN : ConstructOnStream(t, s, d, c, good)
  \/ \E t \in Threads : \E i \in Insts : deviceProperties(t, i)
  \/ \E t \in Threads : Visible(t)
  \/ \E t \in Threads : \E i \in Insts : \E good \in BOOLEAN :
       UserAllocate(t, i, kGpuScratchSize, good)

SpecCache == Init /\ [][NextCache]_vars

\* The thread that builds the objects and, under the single-writer rule of the
\* lazy members, the only one that uses them.
OwnerThread == CHOOSE t \in Threads : \A u \in Threads : t <= u

\* The state after OwnerThread has built every object with
\* GpuStreamDevice(&stream, 0): the cache is published, the objects are live
\* and hold no scratch block.  shared says whether the objects were all
\* given default_stream or each another stream.
StreamGiven(i, shared) == IF shared THEN 0 ELSE (i - 1) % (NumUserStreams + 1)

InitLive ==
  /\ aborted = FALSE
  /\ first = FALSE
  /\ m_devicePropInitialized = TRUE
  /\ m_deviceProperties = 1
  /\ propArrays = <<[d \in Devices |-> TRUE]>>
  /\ pc = [t \in Threads |-> "idle"]
  /\ op = [t \in Threads |-> "none"]
  /\ self = [t \in Threads |-> NoInst]
  /\ num_devices = [t \in Threads |-> 0]
  /\ idx = [t \in Threads |-> 0]
  /\ result = [t \in Threads |-> NULL]
  /\ fresh = [t \in Threads |-> t = OwnerThread]
  /\ life = [i \in Insts |-> "live"]
  /\ mode = [i \in Insts |-> 3]
  /\ \E shared \in BOOLEAN : stream_ = [i \in Insts |-> StreamGiven(i, shared)]
  /\ device_ = [i \in Insts |-> 0]
  /\ scratch_ = [i \in Insts |-> NULL]
  /\ semaphore_ = [i \in Insts |-> NULL]
  /\ heap = [b \in Blocks |-> 0]
  /\ semCell = [b \in Blocks |-> 0]
  /\ held = {}
  /\ queue = [s \in Streams |-> <<>>]
  /\ running = [s \in Streams |-> FALSE]
  /\ streamErr = [s \in Streams |-> FALSE]
  /\ winners = {OwnerThread}
  /\ passLog = {<<OwnerThread, "count">>, <<OwnerThread, "new">>, <<OwnerThread, "props">>}
  /\ returned = {OwnerThread}
  /\ obs = NoObs
  /\ users = [i \in Insts |-> {}]
  /\ scratchAllocs = [i \in Insts |-> 0]
  /\ scratchRets = [i \in Insts |-> {}]
  /\ semRets = [i \in Insts |-> {}]
  /\ zeroFills = [i \in Insts |-> 0]
  /\ dtorFrees = [i \in Insts |-> 0]
  /\ strayAlloc = FALSE
  /\ garbage = {}
  /\ startSeen = {}
  /\ okLog = NoOk
  /\ clean = [s \in Streams |-> FALSE]

LazyStep(t) ==
  \/ ScratchTest(t)
  \/ \E good \in BOOLEAN : ScratchAllocate(t, good)
  \/ ScratchReturn(t)
  \/ SemAssign(t)
  \/ \E good \in BOOLEAN : SemZeroFill(t, good)
  \/ SemReturn(t)


\* The lazy members, the caller's memory and destruction, used by one thread.
NextLazy ==
  \/ LazyStep(OwnerThread)
  \/ \E i \in Insts : CallScratchpad(OwnerThread, i)
  \/ \E i \in Insts : CallSemaphore(OwnerThread, i)
  \/ \E i \in Insts : \E good \in BOOLEAN :
       UserAllocate(OwnerThread, i, kGpuScratchSize, good)
  \/ \E i \in Insts : \E p \in held : \E good \in BOOLEAN :
       UserDeallocate(OwnerThread, i, p, good)
  \/ \E i \in Insts : Destroy(OwnerThread, i)
  \/ \E good \in BOOLEAN : DestructorBody(OwnerThread, good)
  \/ \E s \in Streams : DeviceFill(s)

SpecLazy == InitLive /\ [][NextLazy]_vars

\* The lazy members of objects shared by all threads: any thread calls any object.
NextShared ==
  \/ \E t \in Threads : LazyStep(t)
  \/ \E t \in Threads : \E i \in Insts : CallScratchpad(t, i)
  \/ \E t \in Threads : \E i \in Insts : CallSemaphore(t, i)
  \/ \E t \in Threads : \E i \in Insts : Destroy(t, i)
  \/ \E t \in Threads : \E good \in BOOLEAN : DestructorBody(t, good)
  \/ \E s \in Streams : DeviceFill(s)

SpecShared == InitLive /\ [][NextShared]_vars

\* The semaphore and the kernels that use it, used by one thread.
NextKernel ==
  \/ LazyStep(OwnerThread)
  \/ \E i \in Insts : CallSemaphore(OwnerThread, i)
  \/ \E i \in Insts : \E p \in semRets[i] : \E good \in BOOLEAN :
       Launch(OwnerThread, i, p, good)
  \/ \E i \in Insts : \E good \in BOOLEAN : synchronize(OwnerThread, i, good)
  \/ \E s \in Streams : DeviceFill(s)
  \/ \E s \in Streams : DeviceStart(s)
  \/ \E s \in Streams : DeviceFinish(s)
  \/ \E s \in Streams : DeviceFault(s)

SpecKernel == InitLive /\ [][NextKernel]_vars

\* The facade's stream status: work is issued, waited for and polled.
NextOk ==
  \/ \E i \in Insts : \E good \in BOOLEAN : Launch(OwnerThread, i, NULL, good)
  \/ \E i \in Insts : \E good \in BOOLEAN : synchronize(OwnerThread, i, good)
  \/ \E i \in Insts : ok(OwnerThread, i)
  \/ \E s \in Streams : DeviceStart(s)
  \/ \E s \in Streams : DeviceFinish(s)
  \/ \E s \in Streams : DeviceFault(s)

SpecOk == InitLive /\ [][NextOk]_vars

\* The race for the property cache alone: every way into
\* initializeDeviceProp, each constructor with the device arguments that
\* take its branches.
NextRace ==
  \/ \E t \in Threads : InitStep(t)
  \/ \E t \in Threads : CallInit(t)
  \/ \E t \in Threads : ConstructDefault(t, 0)
  \/ \E t \in Threads : ConstructOnDevice(t, 0)
  \/ \E t \in Threads : \E d \in {-1, 0} : \E good \in BOOLEAN :
       ConstructOnStream(t, 0, d, 0, good)

SpecRace == Init /\ [][NextRace]_vars

\* Direct calls and default-constructed objects, with every thread inside
\* initializeDeviceProp scheduled again and again.
NextInit ==
  \/ \E t \in Threads : InitStep(t)
  \/ \E t \in Threads : CallInit(t)
  \/ \E t \in Threads : ConstructDefault(t, 0)

SpecInitFair ==
  Init /\ [][NextInit]_vars /\ \A t \in Threads : WF_vars(InitStep(t))

\* ================================================================ properties

\* C1: under concurrent first calls of initializeDeviceProp exactly one
\* thread becomes the initializer; only it counts the devices, allocates the
\* array and queries the properties, the array is allocated once, and the
\* pass is never performed a second time.
C1_SingleInitializer ==
  /\ Cardinality(winners) <= 1
  /\ Len(propArrays) <= 1
  /\ \A e \in passLog : e[1] \in winners
  /\ \A t \in Threads :
       pc[t] \in {"init121", "init128", "init129", "init144"} => t \in winners
  /\ returned # {} => Cardinality(winners) = 1

\* the initializer is in the middle of its pass while another thread that
\* lost the exchange sleeps in the waiting loop
C1_Witness ==
  \E t \in Threads : \E u \in Threads \ {t} :
    /\ pc[t] = "init129" /\ idx[t] > 0
    /\ pc[u] = "init149"

\* C2: no thread returns from initializeDeviceProp before the array is
\* allocated and every record written, and no deviceProperties() reader
\* observes an array that is missing or partly written.
C2_PopulatedBeforeReturn ==
  /\ returned # {} =>
       /\ m_devicePropInitialized
       /\ m_deviceProperties # NULL
       /\ \A d \in Devices : propArrays[m_deviceProperties][d]
  /\ obs.rec \notin {"null", "unwritten"}

\* C6: an object whose constructor was given a device index not below the
\* device count never has allocate() return a pointer and never reads a
\* property record outside the cached array.
C6_OutOfRangeIsFatal ==
  /\ ~strayAlloc
  /\ (obs.inst # NoInst /\ obs.idx >= NumDevices /\ mode[obs.inst] \in {2, 3})
       => obs.rec # "out of bounds"

\* C7: deviceProperties() on an object with a visible device index returns
\* that device's record of the one cached array, written, and once published
\* the array is never rebound, reallocated or changed.
C7_StableRecords ==
  /\ (obs.by # NoThread /\ obs.idx \in Devices) =>
       /\ obs.ptr = m_deviceProperties
       /\ obs.rec = "written"
  /\ m_devicePropInitialized =>
       /\ Len(propArrays) = 1
       /\ m_deviceProperties = Len(propArrays)
       /\ \A d \in Devices : propArrays[m_deviceProperties][d]

\* C10: under fair scheduling every call of initializeDeviceProp returns
\* (or the process ended on a failed query).
C10_InitReturns ==
  \A t \in Threads : (pc[t] # "idle") ~> (pc[t] = "idle" \/ aborted)

\* a thread that lost the exchange sleeps in the waiting loop while the
\* initializer has not published yet
C10_Witness ==
  \E t \in Threads : pc[t] = "init149" /\ ~m_devicePropInitialized /\ winners # {}

\* C3: on an object used by one thread, scratchpad() always returns the same
\* non-null pointer, and the object allocates one scratch block, of
\* kGpuScratchSize bytes plus one unsigned int, on the first call that needs it.
C3_ScratchIdempotent ==
  \A i \in Insts :
    /\ scratchAllocs[i] <= 1
    /\ Cardinality(scratchRets[i]) <= 1
    /\ NULL \notin scratchRets[i]
    /\ (scratch_[i] = NULL) = (scratchAllocs[i] = 0)
    /\ scratchRets[i] # {} => scratchRets[i] = {scratch_[i]}
    /\ (scratch_[i] # NULL /\ life[i] = "live") =>
         heap[BlockOf(scratch_[i])] = kGpuScratchSize + SizeofUnsignedInt

\* a later scratchpad() call is about to return on an object whose earlier
\* call already returned the pointer
C3_Witness ==
  \E t \in Threads :
    /\ pc[t] = "scratch222" /\ op[t] = "scratchpad"
    /\ scratchRets[self[t]] # {}
    /\ held # {}

\* C4: the scratch block stays allocated while its object lives; the
\* destructor releases exactly that one block if the object allocated one and
\* nothing otherwise, and never a block the caller got from allocate().
C4_DestructorFreesOnce ==
  \A i \in Insts :
    /\ life[i] # "dead" => dtorFrees[i] = 0
    /\ life[i] = "dead" => dtorFrees[i] = (IF scratchAllocs[i] > 0 THEN 1 ELSE 0)
    /\ (life[i] \in {"live", "dying"} /\ scratch_[i] # NULL) =>
         /\ heap[BlockOf(scratch_[i])] # 0
         /\ scratch_[i] \notin held
    /\ \A p \in held : heap[BlockOf(p)] # 0

\* an object that allocated its scratch block is destroyed and the block is
\* free again, while a block of the caller is still allocated
C4_Witness ==
  \E i \in Insts :
    /\ life[i] = "dead" /\ dtorFrees[i] = 1
    /\ heap[BlockOf(scratch_[i])] = 0
    /\ held # {}

\* C9: an object whose lazy members were only ever entered by one thread
\* allocates at most one scratch block, and a destructor releases at most one
\* block (so what two racing first calls allocate beyond that is leaked).
C9_RaceOnlyWhenShared ==
  \A i \in Insts :
    /\ Cardinality(users[i]) <= 1 => scratchAllocs[i] <= 1
    /\ dtorFrees[i] <= 1

\* two threads' first calls on one object both allocated, the object is
\* destroyed, its destructor released one block and the other is still
\* allocated with no object pointing at it
C9_Witness ==
  \E i \in Insts :
    /\ Cardinality(users[i]) = 2
    /\ scratchAllocs[i] = 2
    /\ life[i] = "dead" /\ dtorFrees[i] = 1
    /\ \E b \in Blocks :
         /\ heap[b] = kGpuScratchSize + SizeofUnsignedInt
         /\ \A j \in Insts : scratch_[j] # Addr(b)

\* C5: semaphore() returns scratch_ + kGpuScratchSize, issues its zero fill
\* once, on the object's stream; every kernel that uses the semaphore finds
\* it zero when it starts, and it is zero after a successful synchronize().
C5_SemaphoreZeroAtStart ==
  /\ startSeen \subseteq {0}
  /\ \A i \in Insts :
       /\ zeroFills[i] <= 1
       /\ semRets[i] # {} =>
            /\ zeroFills[i] = 1
            /\ semRets[i] = {scratch_[i] + kGpuScratchSize}
       /\ (semRets[i] # {} /\ clean[stream_[i]]) =>
            semCell[BlockOf(scratch_[i])] = 0
  /\ \A s \in Streams : \A n \in 1..Len(queue[s]) :
       queue[s][n].k = "memset" =>
         \E i \in Insts : stream_[i] = s /\ semaphore_[i] = queue[s][n].p

\* a kernel is running that found zero in a semaphore whose block came from
\* gpuMalloc with a non-zero value in it
C5_Witness ==
  \E s \in Streams :
    /\ running[s] /\ queue[s] # <<>>
    /\ Head(queue[s]).p # NULL
    /\ (Head(queue[s]).p - kGpuScratchSize) \in garbage
    /\ startSeen = {0}

\* C8: ok() never ends the process; it returns true exactly when the status
\* it polled is "complete" or "not ready", hence true right after a
\* successful synchronize().
C8_OkPollsStatus ==
  /\ [](okLog.status # "none" =>
          /\ okLog.ret = (okLog.status \in {"gpuSuccess", "gpuErrorNotReady"})
          /\ okLog.clean => okLog.ret)
  /\ [][\A i \in Insts : ok(OwnerThread, i) => ~aborted']_vars

\* ok() was called with work still pending and returned true
C8_Witness ==
  /\ okLog.status = "gpuErrorNotReady" /\ okLog.ret
  /\ \E s \in Streams : queue[s] # <<>>

=============================================================================
